---- MODULE Spec2Model ----
(***************************************************************************)
(* Model of wasm_validator (src/src/lib.rs): the diagnostics collector     *)
(* validate_internal, its error classifier, and the wasm boundary          *)
(* function validate.  The JSON Schema evaluator (crate jsonschema) is an  *)
(* external collaborator; it is modelled for the keyword fragment the      *)
(* repository's own tests exercise (type, minimum, maxLength, minLength,   *)
(* properties, required, boolean schemas).                                 *)
(***************************************************************************)
EXTENDS Integers, Sequences, FiniteSets, TLC

VARIABLES schema_js, instance_js, mask_values_js, raised, ret,
          calls, compiled, evaluated, held, probe

vars == <<schema_js, instance_js, mask_values_js, raised, ret,
          calls, compiled, evaluated, held, probe>>

(***************************************************************************)
(* Bounds of the model.                                                    *)
(***************************************************************************)
MaxCalls == 3

MaxErrors == 2

(***************************************************************************)
(* serde_json::Value.                                                      *)
(***************************************************************************)
JNull == [t |-> "null"]

JBool(b) == [t |-> "boolean", b |-> b]

JNum(n) == [t |-> "number", n |-> n]

JStr(s) == [t |-> "string", s |-> s]

JArr(a) == [t |-> "array", a |-> a]

JObj(m) == [t |-> "object", m |-> m]

Keys(v) == DOMAIN v.m

\* serde_json's map is ordered by key; the keys of the model, in that order.
KeyOrder == <<"age", "maxLength", "minLength", "minimum", "name",
              "properties", "required", "type">>

\* Decimal text of the numbers that occur in the model.
NumText == (3 :> "3") @@ (10 :> "10") @@ (17 :> "17") @@ (18 :> "18")
           @@ (25 :> "25") @@ (123 :> "123")

Quote(s) == "\"" \o s \o "\""

RECURSIVE JoinFrom(_, _, _)
JoinFrom(parts, i, sep) ==
    IF i > Len(parts) THEN ""
    ELSE IF i = Len(parts) THEN parts[i]
    ELSE parts[i] \o sep \o JoinFrom(parts, i + 1, sep)

SelectKeys(v) == SelectSeq(KeyOrder, LAMBDA k : k \in Keys(v))

\* Display of a serde_json::Value: compact JSON text.
RECURSIVE value_to_string(_)
value_to_string(v) ==
    CASE v.t = "null" -> "null"
      [] v.t = "boolean" -> IF v.b THEN "true" ELSE "false"
      [] v.t = "number" -> NumText[v.n]
      [] v.t = "string" -> Quote(v.s)
      [] v.t = "array" ->
           "[" \o JoinFrom([i \in 1..Len(v.a) |-> value_to_string(v.a[i])], 1, ",") \o "]"
      [] v.t = "object" ->
           LET ks == SelectKeys(v)
           IN "{" \o JoinFrom([i \in 1..Len(ks) |->
                                 Quote(ks[i]) \o ":" \o value_to_string(v.m[ks[i]])], 1, ",")
                  \o "}"

(***************************************************************************)
(* The schemas of the repository's tests.                                  *)
(***************************************************************************)
\* tests::get_schema
get_schema ==
    JObj([k \in {"type", "properties", "required"} |->
      CASE k = "type" -> JStr("object")
        [] k = "properties" ->
             JObj([p \in {"name", "age"} |->
               IF p = "name"
               THEN JObj([q \in {"type", "maxLength"} |->
                      IF q = "type" THEN JStr("string") ELSE JNum(10)])
               ELSE JObj([q \in {"type", "minimum"} |->
                      IF q = "type" THEN JStr("number") ELSE JNum(18)])])
        [] k = "required" -> JArr(<<JStr("name"), JStr("age")>>)])

\* the "username" property of complex_schema_tests::get_complex_schema
username_schema ==
    JObj([q \in {"type", "minLength"} |->
      IF q = "type" THEN JStr("string") ELSE JNum(3)])

(***************************************************************************)
(* jsonschema::Validator (external evaluator), keyword fragment.           *)
(***************************************************************************)
TypeNames == {"null", "boolean", "number", "string", "array", "object"}

RECURSIVE is_schema(_)
is_schema(s) ==
    \/ s.t = "boolean"
    \/ /\ s.t = "object"
       /\ ("type" \in Keys(s) =>
             s.m["type"].t = "string" /\ s.m["type"].s \in TypeNames)
       /\ ("minimum" \in Keys(s) => s.m["minimum"].t = "number")
       /\ ("maxLength" \in Keys(s) => s.m["maxLength"].t = "number")
       /\ ("minLength" \in Keys(s) => s.m["minLength"].t = "number")
       /\ ("required" \in Keys(s) =>
             /\ s.m["required"].t = "array"
             /\ \A i \in 1..Len(s.m["required"].a) : s.m["required"].a[i].t = "string")
       /\ ("properties" \in Keys(s) =>
             /\ s.m["properties"].t = "object"
             /\ \A p \in Keys(s.m["properties"]) : is_schema(s.m["properties"].m[p]))

\* Validator::new(schema): Ok(validator) or Err(error); the error's Display
\* names the offending schema value.
Validator_new(schema) ==
    IF is_schema(schema)
    THEN [ok |-> TRUE, validator |-> schema]
    ELSE [ok |-> FALSE,
          error |-> <<value_to_string(schema), "is not a valid schema">>]

\* ValidationError: kind, instance_path, the failing instance value and the
\* schema-side parameter of the kind (limit, type name, property name).
ValidationError(kind, path, instance, param) ==
    [kind |-> kind, instance_path |-> path, instance |-> instance, param |-> param]

RECURSIVE FlatFrom(_, _)
FlatFrom(seqs, i) ==
    IF i > Len(seqs) THEN <<>> ELSE seqs[i] \o FlatFrom(seqs, i + 1)

RECURSIVE iter_errors_at(_, _, _)
iter_errors_at(s, inst, path) ==
    IF s.t = "boolean"
    THEN IF s.b THEN <<>>
         ELSE <<ValidationError("FalseSchema", path, inst, "false")>>
    ELSE
      LET ks == SelectKeys(s)
          of_keyword(k) ==
            CASE k = "type" ->
                   IF inst.t # s.m[k].s
                   THEN <<ValidationError("Type", path, inst, Quote(s.m[k].s))>>
                   ELSE <<>>
              [] k = "minimum" ->
                   IF inst.t = "number" /\ inst.n < s.m[k].n
                   THEN <<ValidationError("Minimum", path, inst, NumText[s.m[k].n])>>
                   ELSE <<>>
              [] k = "maxLength" ->
                   IF inst.t = "string" /\ Len(inst.s) > s.m[k].n
                   THEN <<ValidationError("MaxLength", path, inst, NumText[s.m[k].n])>>
                   ELSE <<>>
              [] k = "minLength" ->
                   IF inst.t = "string" /\ Len(inst.s) < s.m[k].n
                   THEN <<ValidationError("MinLength", path, inst, NumText[s.m[k].n])>>
                   ELSE <<>>
              [] k = "required" ->
                   IF inst.t = "object"
                   THEN LET req == s.m[k].a
                        IN FlatFrom([i \in 1..Len(req) |->
                             IF req[i].s \in Keys(inst) THEN <<>>
                             ELSE <<ValidationError("Required", path, inst,
                                                    Quote(req[i].s))>>], 1)
                   ELSE <<>>
              [] k = "properties" ->
                   IF inst.t = "object"
                   THEN LET ps == SelectKeys(s.m[k])
                        IN FlatFrom([i \in 1..Len(ps) |->
                             IF ps[i] \in Keys(inst)
                             THEN iter_errors_at(s.m[k].m[ps[i]], inst.m[ps[i]],
                                                 path \o "/" \o ps[i])
                             ELSE <<>>], 1)
                   ELSE <<>>
              [] OTHER -> <<>>
      IN FlatFrom([i \in 1..Len(ks) |-> of_keyword(ks[i])], 1)

\* validator.iter_errors(instance): every failure, in traversal order.
iter_errors(validator, instance) == iter_errors_at(validator, instance, "")

(***************************************************************************)
(* Message rendering of a ValidationError (Display of the error and of     *)
(* error.masked()).  The masked rendering puts the placeholder "value"     *)
(* where the plain rendering puts the text of the instance value.          *)
(***************************************************************************)
Placeholder == "value"

render(error, subject) ==
    CASE error.kind = "Type" -> <<subject, "is not of type", error.param>>
      [] error.kind = "Minimum" ->
           <<subject, "is less than the minimum of", error.param>>
      [] error.kind = "MaxLength" ->
           <<subject, "is longer than", error.param, "characters">>
      [] error.kind = "MinLength" ->
           <<subject, "is shorter than", error.param, "characters">>
      [] error.kind = "Required" -> <<error.param, "is a required property">>
      [] error.kind = "FalseSchema" -> <<"False schema does not allow", subject>>
      [] OTHER -> <<subject, "is not valid under", error.kind, error.param>>

error_to_string(error) == render(error, value_to_string(error.instance))

masked_to_string(error) == render(error, Placeholder)

(***************************************************************************)
(* Error classifier: the match on error.kind.                              *)
(***************************************************************************)
ErrorKinds ==
    {"AdditionalItems", "AdditionalProperties", "AnyOf", "BacktrackLimitExceeded",
     "Constant", "Contains", "ContentEncoding", "ContentMediaType", "Custom",
     "Enum", "ExclusiveMaximum", "ExclusiveMinimum", "FalseSchema", "Format",
     "FromUtf8", "Maximum", "MaxItems", "MaxLength", "MaxProperties", "Minimum",
     "MinItems", "MinLength", "MinProperties", "MultipleOf", "Not",
     "OneOfMultipleValid", "OneOfNotValid", "Pattern", "PropertyNames",
     "Required", "Type", "UnevaluatedItems", "UnevaluatedProperties",
     "UniqueItems", "Referencing"}

code_of(kind) ==
    CASE kind = "AdditionalItems" -> "additional_items"
      [] kind = "AdditionalProperties" -> "additional_properties"
      [] kind = "AnyOf" -> "any_of_mismatch"
      [] kind = "BacktrackLimitExceeded" -> "regex_backtrack_limit"
      [] kind = "Constant" -> "const_mismatch"
      [] kind = "Contains" -> "no_match_in_contains"
      [] kind = "ContentEncoding" -> "invalid_content_encoding"
      [] kind = "ContentMediaType" -> "invalid_media_type"
      [] kind = "Custom" -> "custom_error"
      [] kind = "Enum" -> "enum_mismatch"
      [] kind = "ExclusiveMaximum" -> "exclusive_max"
      [] kind = "ExclusiveMinimum" -> "exclusive_min"
      [] kind = "FalseSchema" -> "disallowed_value"
      [] kind = "Format" -> "format_mismatch"
      [] kind = "FromUtf8" -> "invalid_utf8"
      [] kind = "Maximum" -> "too_large"
      [] kind = "MaxItems" -> "too_many_items"
      [] kind = "MaxLength" -> "too_long"
      [] kind = "MaxProperties" -> "too_many_properties"
      [] kind = "Minimum" -> "too_small"
      [] kind = "MinItems" -> "too_few_items"
      [] kind = "MinLength" -> "too_short"
      [] kind = "MinProperties" -> "too_few_properties"
      [] kind = "MultipleOf" -> "not_a_multiple"
      [] kind = "Not" -> "negated_schema_match"
      [] kind = "OneOfMultipleValid" -> "one_of_multiple_matches"
      [] kind = "OneOfNotValid" -> "one_of_no_match"
      [] kind = "Pattern" -> "pattern_mismatch"
      [] kind = "PropertyNames" -> "invalid_property_name"
      [] kind = "Required" -> "missing_property"
      [] kind = "Type" -> "invalid_type"
      [] kind = "UnevaluatedItems" -> "unevaluated_items"
      [] kind = "UnevaluatedProperties" -> "unevaluated_properties"
      [] kind = "UniqueItems" -> "duplicate_items"
      [] kind = "Referencing" -> "schema_reference_error"

(***************************************************************************)
(* Diagnostics collector.                                                  *)
(***************************************************************************)
ValidationIssue(path, message, code) ==
    [path |-> path, message |-> message, code |-> code]

\* issue_of with a catch-all arm in the place of the Referencing arm
issue_of_catch_all(error, mask_values) ==
    LET message == IF mask_values THEN masked_to_string(error)
                   ELSE error_to_string(error)
        code == IF error.kind = "Referencing" THEN "invalid_schema"
                ELSE code_of(error.kind)
    IN ValidationIssue(error.instance_path, message, code)

\* issue_of taking the path from the masked error, which has none
issue_of_masked_path(error, mask_values) ==
    LET message == IF mask_values THEN masked_to_string(error)
                   ELSE error_to_string(error)
        code == code_of(error.kind)
    IN ValidationIssue(IF mask_values THEN "" ELSE error.instance_path, message, code)

\* issue_of ignoring mask_values
issue_of_never_masked(error, mask_values) ==
    LET message == error_to_string(error)
        code == code_of(error.kind)
    IN ValidationIssue(error.instance_path, message, code)

\* the closure of .map(|error| ...)
issue_of(error, mask_values) ==
    LET message == IF mask_values THEN masked_to_string(error)
                   ELSE error_to_string(error)
        code == code_of(error.kind)
    IN ValidationIssue(error.instance_path, message, code)

\* collect stopping at the first failure
collect_fail_fast(errors, mask_values) ==
    [i \in 1..(IF Len(errors) > 1 THEN 1 ELSE Len(errors)) |->
        issue_of(errors[i], mask_values)]

\* collect into a vector that outlives the call
collect_into_kept_vector(errors, mask_values) ==
    ret.issues \o [i \in 1..Len(errors) |-> issue_of(errors[i], mask_values)]

\* validator.iter_errors(instance).map(...).collect()
collect(errors, mask_values) ==
    [i \in 1..Len(errors) |-> issue_of(errors[i], mask_values)]

\* result_of without the is_empty test
result_of_always_err(errors) == [ok |-> FALSE, errors |-> errors]

\* if errors.is_empty() { Ok(()) } else { Err(errors) }
result_of(errors) ==
    IF errors = <<>> THEN [ok |-> TRUE, errors |-> <<>>]
    ELSE [ok |-> FALSE, errors |-> errors]

\* schema_issue with the path of the document root
schema_issue_at_root(e) ==
    ValidationIssue("", <<"Schema compilation error:">> \o e, "invalid_schema")

\* the issue of the Err arm of Validator::new
schema_issue(e) ==
    ValidationIssue("/", <<"Schema compilation error:">> \o e, "invalid_schema")

NoValidator == [t |-> "none"]

\* validate_internal, with the evaluator's failures (raised), whether the
\* instance was evaluated and the compiled validator recorded next to the Result.
validate_internal(instance, schema, mask_values) ==
    LET built == Validator_new(schema)
    IN IF ~built.ok
       THEN [result |-> [ok |-> FALSE, errors |-> <<schema_issue(built.error)>>],
             evaluated |-> FALSE, raised |-> <<>>, validator |-> NoValidator]
       ELSE LET found == iter_errors(built.validator, instance)
            IN [result |-> result_of(collect(found, mask_values)),
                evaluated |-> TRUE, raised |-> found,
                validator |-> built.validator]

(***************************************************************************)
(* Boundary adapter: JsValue in, Result<(), JsValue> out.                  *)
(***************************************************************************)
JsJson(v) == [js |-> "json", v |-> v]

JsSymbol == [js |-> "symbol", v |-> JNull]

\* from_value turning what is not JSON into null
from_value_lenient(x) ==
    IF x.js = "json" THEN [ok |-> TRUE, value |-> x.v, error |-> ""]
    ELSE [ok |-> TRUE, value |-> JNull, error |-> ""]

\* serde_wasm_bindgen::from_value::<Value>
from_value(x) ==
    IF x.js = "json" THEN [ok |-> TRUE, value |-> x.v, error |-> ""]
    ELSE [ok |-> FALSE, value |-> JNull, error |-> "unsupported JS value"]

NoneOpt == [some |-> FALSE, b |-> FALSE]

Some(b) == [some |-> TRUE, b |-> b]

unwrap_or(opt, default) == IF opt.some THEN opt.b ELSE default

IsIssue(x) == DOMAIN x = {"path", "message", "code"}

\* serde_wasm_bindgen::to_value(&errors): a JS array of {path, message, code}
to_value(errors) ==
    IF \A i \in 1..Len(errors) : IsIssue(errors[i])
    THEN [ok |-> TRUE, issues |-> errors]
    ELSE [ok |-> FALSE, issues |-> <<>>]

NoReturn == [tag |-> "none", js |-> "undefined", text |-> <<>>, issues |-> <<>>]

ReturnOk == [tag |-> "Ok", js |-> "undefined", text |-> <<>>, issues |-> <<>>]

ErrString(text) == [tag |-> "Err", js |-> "string", text |-> text, issues |-> <<>>]

ErrArray(issues) == [tag |-> "Err", js |-> "array", text |-> <<>>, issues |-> issues]

Panic == [tag |-> "panic", js |-> "undefined", text |-> <<>>, issues |-> <<>>]

\* validate_internal(..).unwrap() in the place of the match
return_of_unwrap(result) == IF result.ok THEN ReturnOk ELSE Panic

\* match validate_internal(..) { Ok(_) => Ok(()), Err(errors) => Err(to_value(&errors).unwrap()) }
return_of(result) ==
    IF result.ok THEN ReturnOk
    ELSE LET js == to_value(result.errors)
         IN IF js.ok THEN ErrArray(js.issues) ELSE Panic

\* One run of the boundary function: what it returns and which stages ran.
run_validate(s_js, i_js, m_js) ==
    LET schema == from_value(s_js)
        instance == from_value(i_js)
    IN IF ~schema.ok
       THEN [ret |-> ErrString(<<"Schema deserialization error:", schema.error>>),
             compiled |-> FALSE, evaluated |-> FALSE, raised |-> <<>>,
             validator |-> NoValidator]
       ELSE IF ~instance.ok
       THEN [ret |-> ErrString(<<"Instance deserialization error:", instance.error>>),
             compiled |-> FALSE, evaluated |-> FALSE, raised |-> <<>>,
             validator |-> NoValidator]
       ELSE LET mask_values == unwrap_or(m_js, FALSE)
                r == validate_internal(instance.value, schema.value, mask_values)
            IN [ret |-> return_of(r.result), compiled |-> TRUE,
                evaluated |-> r.evaluated, raised |-> r.raised,
                validator |-> r.validator]

\* The compiled validator is a local of validate_internal: nothing is kept
\* once the call has returned.
\* the validator stored for the next call
validator_kept(validator) == validator

validator_after_return(validator) == NoValidator

(***************************************************************************)
(* Inputs of the model.                                                    *)
(***************************************************************************)
Person(name, age) ==
    JObj([k \in {"name", "age"} |-> IF k = "name" THEN name ELSE age])

EmptyObject == JObj([k \in {} |-> JNull])

SchemaDocs == {JNull, JNum(18), get_schema, username_schema}

InstanceDocs ==
    {Person(JStr("John Doe"), JNum(25)),
     Person(JStr("John Doe"), JStr("number")),
     Person(JNum(123), JNum(17)),
     Person(JStr("ThisNameIsClearlyTooLong"), JNum(25)),
     EmptyObject,
     JStr("a")}

MaskInputs == {NoneOpt, Some(TRUE), Some(FALSE)}

\* Arguments of a call: every JSON schema with every JSON instance and flag,
\* and calls in which the schema or the instance is a JS symbol.
CallInputs ==
    ({JsJson(d) : d \in SchemaDocs} \X {JsJson(d) : d \in InstanceDocs} \X MaskInputs)
    \cup ({JsSymbol} \X {JsJson(EmptyObject), JsSymbol} \X {NoneOpt})
    \cup ({JsJson(JNull), JsJson(get_schema)} \X {JsSymbol} \X {Some(TRUE)})

(***************************************************************************)
(* State: the arguments and the return value of the latest call of the     *)
(* boundary function, the failures the evaluator raised in it, whether it  *)
(* compiled the schema and evaluated the instance, the number of calls so  *)
(* far, the validator kept after the call, and the first call of the run   *)
(* (probe).                                                                *)
(***************************************************************************)
NoProbe ==
    [set |-> FALSE, schema_js |-> JsSymbol, instance_js |-> JsSymbol,
     mask_values_js |-> NoneOpt, ret |-> NoReturn]

Init ==
    /\ schema_js = JsSymbol
    /\ instance_js = JsSymbol
    /\ mask_values_js = NoneOpt
    /\ raised = <<>>
    /\ ret = NoReturn
    /\ calls = 0
    /\ compiled = FALSE
    /\ evaluated = FALSE
    /\ held = NoValidator
    /\ probe = NoProbe

\* #[wasm_bindgen] pub fn validate(schema_js, instance_js, mask_values_js)
validate(s_js, i_js, m_js) ==
    /\ calls < MaxCalls
    /\ LET run == run_validate(s_js, i_js, m_js)
       IN /\ schema_js' = s_js
          /\ instance_js' = i_js
          /\ mask_values_js' = m_js
          /\ raised' = run.raised
          /\ ret' = run.ret
          /\ calls' = calls + 1
          /\ compiled' = run.compiled
          /\ evaluated' = run.evaluated
          /\ held' = IF run.compiled THEN validator_after_return(run.validator)
                     ELSE held
          /\ probe' = IF probe.set THEN probe
                      ELSE [set |-> TRUE, schema_js |-> s_js, instance_js |-> i_js,
                            mask_values_js |-> m_js, ret |-> run.ret]

Next == \E c \in CallInputs : validate(c[1], c[2], c[3])

Spec == Init /\ [][Next]_vars

(***************************************************************************)
(* The collector against an arbitrary evaluator: the schema has compiled   *)
(* and the evaluator has raised any sequence of at most MaxErrors failures *)
(* of any of the kinds of ValidationErrorKind.                             *)
(***************************************************************************)
RaisedErrors ==
    {ValidationError(k, "", JNum(17), "18") : k \in ErrorKinds}
    \cup {ValidationError(k, "/age", JNum(17), "18") : k \in {"Minimum", "Type"}}

RaisedSeqs == UNION {[1..n -> RaisedErrors] : n \in 0..MaxErrors}

InitCollect ==
    /\ schema_js = JsJson(JBool(TRUE))
    /\ instance_js = JsJson(JNum(17))
    /\ mask_values_js \in {Some(TRUE), Some(FALSE)}
    /\ raised \in RaisedSeqs
    /\ ret = NoReturn
    /\ calls = 0
    /\ compiled = TRUE
    /\ evaluated = FALSE
    /\ held = NoValidator
    /\ probe = NoProbe

\* validate_internal from the errors the evaluator raised to the returned value
collect_errors ==
    /\ calls = 0
    /\ ret' = return_of(result_of(collect(raised, unwrap_or(mask_values_js, FALSE))))
    /\ calls' = 1
    /\ evaluated' = TRUE
    /\ UNCHANGED <<schema_js, instance_js, mask_values_js, raised, compiled,
                   held, probe>>

NextCollect == collect_errors

SpecCollect == InitCollect /\ [][NextCollect]_vars

(***************************************************************************)
(* Vocabulary of the properties.                                           *)
(***************************************************************************)
Called == ret.tag # "none"

Deserialized == schema_js.js = "json" /\ instance_js.js = "json"

SchemaCompiles == is_schema(schema_js.v)

MaskOn == unwrap_or(mask_values_js, FALSE)

Contains(message, text) == \E i \in 1..Len(message) : message[i] = text

IssueCount == Len(ret.issues)

\* the verdict, and the path and code of every issue, of a returned value
Outline(r) ==
    [tag |-> r.tag, js |-> r.js,
     issues |-> [i \in 1..Len(r.issues) |->
                   [path |-> r.issues[i].path, code |-> r.issues[i].code]]]

SameDocsAsProbe ==
    probe.set /\ calls >= 2 /\ probe.schema_js = schema_js
              /\ probe.instance_js = instance_js

\* C1: when the schema does not compile, the call returns a failure with
\* exactly one issue, path "/", code "invalid_schema", whose message holds
\* the reason of the compilation failure, whatever the instance is; the
\* instance is not evaluated and no failure of the evaluator is reported.
C1_CompileFailureIsOneIssue ==
    (Called /\ Deserialized /\ ~SchemaCompiles) =>
        /\ ret.tag = "Err" /\ ret.js = "array"
        /\ IssueCount = 1
        /\ ret.issues[1].path = "/"
        /\ ret.issues[1].code = "invalid_schema"
        /\ ret.issues[1].message[1] = "Schema compilation error:"
        /\ SubSeq(ret.issues[1].message, 2, Len(ret.issues[1].message))
              = Validator_new(schema_js.v).error
        /\ ~evaluated
        /\ raised = <<>>

C1_Witness ==
    /\ Called /\ Deserialized /\ ~SchemaCompiles
    /\ schema_js.v = JNull
    /\ instance_js.v = Person(JNum(123), JNum(17))
    /\ IssueCount = 1

\* C2: with a schema that compiles, the call returns success exactly when
\* the evaluator raised no failure, and no returned failure carries an
\* empty issue list.
C2_SuccessIffNoFailure ==
    /\ (Called /\ Deserialized /\ SchemaCompiles) =>
           (ret.tag = "Ok" <=> raised = <<>>)
    /\ (ret.tag = "Err" /\ ret.js = "array") => ret.issues # <<>>

C2_Witness ==
    /\ Called /\ Deserialized /\ SchemaCompiles
    /\ ret.tag = "Ok"
    /\ probe.ret.tag = "Err" /\ probe.ret.js = "array"
    /\ probe.schema_js = schema_js

\* C3: the issue list has one issue per failure the evaluator raised, in the
\* evaluator's order: nothing is dropped after the first failure, nothing is
\* reordered, and failures that share path and code stay separate issues;
\* the i-th issue has the i-th failure's instance location.
C3_OneIssuePerFailureInOrder ==
    (Called /\ evaluated) =>
        /\ IssueCount = Len(raised)
        /\ \A i \in 1..Len(raised) :
              /\ ret.issues[i].path = raised[i].instance_path
              /\ ret.issues[i].code = code_of(raised[i].kind)
              /\ ret.issues[i].message \in
                    {error_to_string(raised[i]), masked_to_string(raised[i])}

C3_Witness ==
    /\ Called /\ evaluated
    /\ Len(raised) = 2
    /\ raised[1].instance_path = raised[2].instance_path
    /\ raised[1].kind = raised[2].kind
    /\ raised[1] # raised[2]
    /\ IssueCount = 2

\* C4: the classifier gives every one of the 35 failure kinds the code of the
\* reference taxonomy, so no issue of an evaluated instance has the code
\* "invalid_schema".
Taxonomy ==
    [k \in ErrorKinds |->
      CASE k = "AdditionalItems" -> "additional_items"
        [] k = "AdditionalProperties" -> "additional_properties"
        [] k = "AnyOf" -> "any_of_mismatch"
        [] k = "BacktrackLimitExceeded" -> "regex_backtrack_limit"
        [] k = "Constant" -> "const_mismatch"
        [] k = "Contains" -> "no_match_in_contains"
        [] k = "ContentEncoding" -> "invalid_content_encoding"
        [] k = "ContentMediaType" -> "invalid_media_type"
        [] k = "Custom" -> "custom_error"
        [] k = "Enum" -> "enum_mismatch"
        [] k = "ExclusiveMaximum" -> "exclusive_max"
        [] k = "ExclusiveMinimum" -> "exclusive_min"
        [] k = "FalseSchema" -> "disallowed_value"
        [] k = "Format" -> "format_mismatch"
        [] k = "FromUtf8" -> "invalid_utf8"
        [] k = "Maximum" -> "too_large"
        [] k = "MaxItems" -> "too_many_items"
        [] k = "MaxLength" -> "too_long"
        [] k = "MaxProperties" -> "too_many_properties"
        [] k = "Minimum" -> "too_small"
        [] k = "MinItems" -> "too_few_items"
        [] k = "MinLength" -> "too_short"
        [] k = "MinProperties" -> "too_few_properties"
        [] k = "MultipleOf" -> "not_a_multiple"
        [] k = "Not" -> "negated_schema_match"
        [] k = "OneOfMultipleValid" -> "one_of_multiple_matches"
        [] k = "OneOfNotValid" -> "one_of_no_match"
        [] k = "Pattern" -> "pattern_mismatch"
        [] k = "PropertyNames" -> "invalid_property_name"
        [] k = "Required" -> "missing_property"
        [] k = "Type" -> "invalid_type"
        [] k = "UnevaluatedItems" -> "unevaluated_items"
        [] k = "UnevaluatedProperties" -> "unevaluated_properties"
        [] k = "UniqueItems" -> "duplicate_items"
        [] k = "Referencing" -> "schema_reference_error"]

C4_ClassifierMatchesTaxonomy ==
    /\ Cardinality(ErrorKinds) = 35
    /\ (Called /\ evaluated) =>
          /\ IssueCount = Len(raised)
          /\ \A i \in 1..IssueCount :
                /\ raised[i].kind \in ErrorKinds
                /\ ret.issues[i].code = Taxonomy[raised[i].kind]
                /\ ret.issues[i].code # "invalid_schema"

C4_Witness ==
    /\ Called /\ evaluated
    /\ Len(raised) = 2
    /\ raised[1].kind = "UniqueItems" /\ raised[2].kind = "Minimum"
    /\ ret.issues[1].code = "duplicate_items"
    /\ ret.issues[2].code = "too_small"

\* C5: for the same schema and instance, a call with mask_values = true and a
\* call with mask_values = false return the same verdict, the same number of
\* issues and, at every position, the same path and the same code.
C5_MaskChangesOnlyMessages ==
    SameDocsAsProbe => Outline(ret) = Outline(probe.ret)

C5_Witness ==
    /\ SameDocsAsProbe
    /\ unwrap_or(probe.mask_values_js, FALSE) /\ ~MaskOn
    /\ IssueCount = 2
    /\ ret # probe.ret

\* C6 as stated: with mask_values = true no message holds the literal text of
\* the instance value that triggered the failure.
C6_NoInstanceLiteralWhenMasked ==
    (Called /\ evaluated /\ MaskOn) =>
        \A i \in 1..IssueCount :
            ~Contains(ret.issues[i].message, value_to_string(raised[i].instance))

\* C6: with mask_values = true every message is rendered with the placeholder
\* in the place of the instance value, so it holds the literal text of the
\* instance value only where that text is also the schema-side literal the
\* message states (the type name, the limit, the property name); with
\* mask_values = false the message may hold the instance literal.
C6_MaskedMessageHasOnlySchemaLiterals ==
    (Called /\ evaluated /\ MaskOn) =>
        \A i \in 1..IssueCount :
            Contains(ret.issues[i].message, value_to_string(raised[i].instance))
                => value_to_string(raised[i].instance) = raised[i].param

C6_Witness ==
    /\ Called /\ evaluated /\ MaskOn
    /\ IssueCount = 1
    /\ raised[1].kind = "MaxLength"
    /\ ret.issues[1].message = <<"value", "is longer than", "10", "characters">>
    /\ SameDocsAsProbe
    /\ Contains(probe.ret.issues[1].message, "\"ThisNameIsClearlyTooLong\"")

C9_DeserializationErrorIsDistinct ==
    (Called /\ ~Deserialized) =>
        /\ ret.tag = "Err" /\ ret.js = "string"
        /\ ret.issues = <<>>
        /\ ret.text[1] \in {"Schema deserialization error:",
                            "Instance deserialization error:"}
        /\ ~compiled /\ ~evaluated /\ raised = <<>>

C9_Witness ==
    /\ Called
    /\ schema_js.js = "json" /\ instance_js.js = "symbol"
    /\ ret.text[1] = "Instance deserialization error:"

\* C10: every call returns data to the caller (success, an issue list or a
\* deserialization error); none ends in a panic, the serialization of the
\* issue list included.
C10_NoPanic ==
    Called => /\ ret.tag \in {"Ok", "Err"}
              /\ (ret.tag = "Err" => ret.js \in {"string", "array"})

C10_Witness ==
    /\ Called
    /\ ret.tag = "Err" /\ ret.js = "array"
    /\ IssueCount = 2

====
